---- MODULE Spec2Model ----
(***************************************************************************)
(* Call-site resolution of frontends/p4/methodInstance.h: the resolved     *)
(* call (MethodInstance and its six variants), the resolved constructor    *)
(* call (ConstructorCall and its two variants) and the resolved            *)
(* instantiation (Instantiation and its four variants), each with its      *)
(* parameter substitution and its type-variable substitution.              *)
(*                                                                         *)
(* The header holds the constructors; the classifiers (the three static    *)
(* resolve functions), ActionCall::specialize and the two substitution     *)
(* containers live in other files and are modelled from the design text.   *)
(***************************************************************************)
EXTENDS Integers, Sequences, FiniteSets, TLC

\* ------------------------------------------------------------------ bounds

\* Longest formal parameter list and longest argument list.
MaxParams == 2
\* Longest type-parameter list and longest type-argument list.
MaxTypeParams == 1

\* ------------------------------------------------------------- vocabulary

ParamNames == <<"a", "b", "c", "d">>
ArgExprs == <<"e1", "e2", "e3", "e4">>
TypeVarNames == <<"T", "U", "V">>
ConcreteTypes == <<"int32", "bit8", "bool">>

Null == "null"

Range(s) == {s[i] : i \in 1..Len(s)}

\* An argument of a call: name "" is a positional argument.
Arg(n, e) == [name |-> n, expr |-> e]
\* What an omitted optional parameter is bound to.
DefaultArg(p) == [name |-> p.name, expr |-> "default"]

\* A formal parameter; opt: it is optional or has a default value.
Param(n, t, o) == [name |-> n, type |-> t, opt |-> o]

\* ------------------------------------------------- ParameterSubstitution

\* InstanceBase::substitution before populate ran.
EmptySubstitution == [populated |-> FALSE, paramList |-> <<>>, map |-> {}]

\* The parameter (its index in params) argument i is matched with, 0 for none:
\* positional arguments take the parameters in order, a named argument takes
\* the parameter of that name.
TargetOf(params, args, i) ==
    IF args[i].name = ""
    THEN LET k == Cardinality({j \in 1..i : args[j].name = ""})
         IN IF k <= Len(params) THEN k ELSE 0
    ELSE LET hits == {j \in 1..Len(params) : params[j].name = args[i].name}
         IN IF hits = {} THEN 0 ELSE CHOOSE j \in hits : \A h \in hits : j <= h

Bound(params, args) == {TargetOf(params, args, i) : i \in 1..Len(args)}

\* Arity and names can be reconciled: every argument finds a parameter of its
\* own, and every parameter left without an argument is optional.
Reconcilable(params, args) ==
    /\ \A i \in 1..Len(args) : TargetOf(params, args, i) # 0
    /\ \A i, j \in 1..Len(args) :
           i # j => TargetOf(params, args, i) # TargetOf(params, args, j)
    /\ \A j \in 1..Len(params) : j \notin Bound(params, args) => params[j].opt

\* ParameterSubstitution::populate(params, args).
populate(params, args) ==
    IF ~Reconcilable(params, args)
    THEN [ok |-> FALSE, sub |-> EmptySubstitution]
    ELSE [ok |-> TRUE,
          sub |-> [populated |-> TRUE,
                   paramList |-> params,
                   map |-> {[param |-> params[TargetOf(params, args, i)],
                             arg |-> args[i]] : i \in 1..Len(args)}
                           \cup
                           {[param |-> params[j], arg |-> DefaultArg(params[j])] :
                              j \in (1..Len(params)) \ Bound(params, args)}]]

\* ---------------------------------------------- TypeVariableSubstitution

\* InstanceBase::typeSubstitution before setBindings ran.
EmptyTypeSubstitution == {}

\* TypeVariableSubstitution::setBindings(node, params, args): one binding per
\* type parameter; a list of another length is not accepted and binds nothing.
setBindings(tvs, params, args) ==
    IF Len(params) # Len(args)
    THEN tvs
    ELSE tvs \cup {[var |-> params[i], type |-> args[i]] : i \in 1..Len(params)}

TypeVarsOf(tvs) == {b.var : b \in tvs}

\* ------------------------------------------------------------ IR objects

\* A method type (IR::Type_MethodBase): id is the object's identity.
MethodType(i, tps, ps) == [id |-> i, typeParameters |-> tps, parameters |-> ps]
NullType == MethodType(Null, <<>>, <<>>)

\* A declaration (IR::IDeclaration): node is its IR class.
Decl(i, n) == [id |-> i, node |-> n]
NullDecl == Decl(Null, Null)

\* A method or function declaration (IR::Method, IR::Function) with its type.
Callable(i, t) == [id |-> i, type |-> t]
NullCallable == Callable(Null, NullType)

\* An action declaration (IR::P4Action): its parameters and its body, the
\* sequence of the names and values the body's statements mention.
Action(i, ps, b) == [id |-> i, parameters |-> ps, body |-> b]
NullAction == Action(Null, <<>>, <<>>)

\* A constructor-call expression (IR::ConstructorCallExpression) and an
\* instance declaration (IR::Declaration_Instance), each with its arguments.
Site(i, as) == [id |-> i, arguments |-> as]
NullSite == Site(Null, <<>>)

\* A call expression (IR::MethodCallExpression).
CallExpr(as, tas) == [id |-> "mce", arguments |-> as, typeArguments |-> tas]

\* An object implementing IApply: a table, a control or a parser.  applyType
\* is its apply-method signature; freshType tells whether
\* getApplyMethodType() makes a new type object at each call or returns a
\* stored one, which the header does not determine.
ApplyObject(k, ps, fresh) ==
    [id |-> k, freshType |-> fresh,
     applyType |-> MethodType("applyType", <<>>, IF k = "table" THEN <<>> ELSE ps)]

\* IApply::getApplyMethodType(), at the call-th call of it: the object's
\* fixed apply-method signature, in a stored type object or in a new one.
getApplyMethodType(applyObject, call) ==
    IF applyObject.freshType
    THEN [applyObject.applyType EXCEPT !.id = IF call = 1 THEN "applyType1" ELSE "applyType2"]
    ELSE applyObject.applyType

\* A pointer to a list: <<>> is nullptr, <<l>> points to l.
NullList == <<>>
PtrTo(l) == <<l>>

\* ------------------------------------------------------------- instances

\* The fields of every class of the header, before any constructor ran.
\* variant names the most derived class.
Blank ==
    [variant |-> "none",
     \* InstanceBase
     substitution |-> EmptySubstitution,
     typeSubstitution |-> EmptyTypeSubstitution,
     \* MethodInstance
     expr |-> CallExpr(<<>>, <<>>),
     object |-> NullDecl,
     originalMethodType |-> NullType,
     actualMethodType |-> NullType,
     \* ApplyMethod, ExternCall, ExternMethod, ActionCall, FunctionCall, BuiltInMethod
     applyObject |-> Null,
     method |-> Null,
     originalExternType |-> Null,
     actualExternType |-> Null,
     action |-> NullAction,
     function |-> Null,
     name |-> Null,
     appliedTo |-> Null,
     \* ConstructorCall, Instantiation
     cce |-> NullSite,
     instance |-> NullSite,
     typeArguments |-> NullList,
     constructorArguments |-> NullList,
     constructorParameters |-> NullList,
     typeParameters |-> NullList,
     \* ExternConstructorCall, ContainerConstructorCall, the four instantiations
     type |-> Null,
     constructor |-> Null,
     container |-> Null]

\* The outcome of a constructor or of a resolve: an instance, or a fatal error.
Ok(i) == [err |-> "", inst |-> i]
Fail(why) == [err |-> why, inst |-> Blank]

\* MethodInstance::MethodInstance.
MethodInstanceCtor(mce, decl, originalMethodType, actualMethodType) ==
    IF mce.id = Null \/ originalMethodType.id = Null \/ actualMethodType.id = Null
    THEN Fail("CHECK_NULL")
    ELSE Ok([Blank EXCEPT !.expr = mce,
                          !.object = decl,
                          !.originalMethodType = originalMethodType,
                          !.actualMethodType = actualMethodType])

\* MethodInstance::getOriginalParameters, getActualParameters.
getOriginalParameters(inst) == inst.originalMethodType.parameters
getActualParameters(inst) == inst.actualMethodType.parameters

\* bindParameters populating from the original (unsubstituted) parameters.
bindOriginalParameters(inst) ==
    LET r == populate(getOriginalParameters(inst), inst.expr.arguments)
    IN IF r.ok THEN Ok([inst EXCEPT !.substitution = r.sub]) ELSE Fail("ArityMismatch")

\* MethodInstance::bindParameters.
bindParameters(inst) ==
    LET r == populate(getActualParameters(inst), inst.expr.arguments)
    IN IF r.ok THEN Ok([inst EXCEPT !.substitution = r.sub]) ELSE Fail("ArityMismatch")

\* What a build can make of applyObject->getApplyMethodType() on a null
\* applyObject, which is undefined: the call crashes; the call returns and
\* CHECK_NULL(applyObject) then fails; or the check is compiled away, the
\* pointer having been dereferenced before it, and construction goes on.
UndefinedOutcomes == {"crash", "checked", "unchecked"}

\* ApplyMethod::ApplyMethod passing no declaration to its base.
ApplyMethodNoDecl(expr, decl, applyObject, ub, lastFirst) ==
    LET base == MethodInstanceCtor(expr, NullDecl,
                                   getApplyMethodType(applyObject, IF lastFirst THEN 2 ELSE 1),
                                   getApplyMethodType(applyObject, IF lastFirst THEN 1 ELSE 2))
    IN IF applyObject.id = Null /\ ub = "crash" THEN Fail("null dereference")
       ELSE IF base.err # "" THEN base
       ELSE IF applyObject.id = Null /\ ub = "checked" THEN Fail("CHECK_NULL")
       ELSE bindParameters([base.inst EXCEPT !.variant = "ApplyMethod",
                                             !.applyObject = applyObject.id])

\* ApplyMethod::ApplyMethod.  The initializer list calls
\* applyObject->getApplyMethodType() twice before the body runs
\* CHECK_NULL(applyObject): on a null applyObject the behaviour is undefined
\* and ub is the outcome the build produces.  The two calls are two arguments
\* of one constructor call, evaluated in an order the language leaves to the
\* build: lastFirst tells that the last argument is evaluated first, so that
\* originalMethodType is the result of the second call.  resolve passes an
\* object it has found to implement IApply.
ApplyMethodCtor(expr, decl, applyObject, ub, lastFirst) ==
    LET base == MethodInstanceCtor(expr, decl,
                                   getApplyMethodType(applyObject, IF lastFirst THEN 2 ELSE 1),
                                   getApplyMethodType(applyObject, IF lastFirst THEN 1 ELSE 2))
    IN IF applyObject.id = Null /\ ub = "crash" THEN Fail("null dereference")
       ELSE IF base.err # "" THEN base
       ELSE IF applyObject.id = Null /\ ub = "checked" THEN Fail("CHECK_NULL")
       ELSE bindParameters([base.inst EXCEPT !.variant = "ApplyMethod",
                                             !.applyObject = applyObject.id])

\* ApplyMethod::isTableApply: object->is<IR::P4Table>(), a dereference of object.
isTableApply(inst) ==
    IF inst.object.id = Null THEN "null dereference"
    ELSE IF inst.object.node = "P4Table" THEN "true" ELSE "false"

\* ExternCall::ExternCall leaving out the parameter binding in incomplete mode.
ExternCallNoBindIncomplete(variant, expr, decl, method, originalMethodType, actualMethodType, incomplete) ==
    LET base == MethodInstanceCtor(expr, decl, originalMethodType, actualMethodType)
    IN IF base.err # "" THEN base
       ELSE IF method.id = Null THEN Fail("CHECK_NULL")
       ELSE LET i == [base.inst EXCEPT !.variant = variant, !.method = method.id]
            IN IF incomplete THEN Ok(i)
               ELSE LET b == bindParameters(i)
                    IN IF b.err # "" THEN b
                       ELSE Ok([b.inst EXCEPT !.typeSubstitution =
                                    setBindings(@, method.type.typeParameters,
                                                expr.typeArguments)])

\* ExternCall::ExternCall.  variant names the derived class being constructed.
ExternCallCtor(variant, expr, decl, method, originalMethodType, actualMethodType, incomplete) ==
    LET base == MethodInstanceCtor(expr, decl, originalMethodType, actualMethodType)
    IN IF base.err # "" THEN base
       ELSE IF method.id = Null THEN Fail("CHECK_NULL")
       ELSE LET b == bindParameters([base.inst EXCEPT !.variant = variant,
                                                      !.method = method.id])
            IN IF b.err # "" \/ incomplete THEN b
               ELSE Ok([b.inst EXCEPT !.typeSubstitution =
                            setBindings(@, method.type.typeParameters,
                                        expr.typeArguments)])

\* ExternMethod::ExternMethod.
ExternMethodCtor(expr, decl, method, originalExternType, originalMethodType, actualExternType, actualMethodType, incomplete) ==
    LET base == ExternCallCtor("ExternMethod", expr, decl, method, originalMethodType,
                               actualMethodType, incomplete)
    IN IF base.err # "" THEN base
       ELSE IF originalExternType = Null \/ actualExternType = Null THEN Fail("CHECK_NULL")
       ELSE Ok([base.inst EXCEPT !.originalExternType = originalExternType,
                                 !.actualExternType = actualExternType])

\* ExternFunction::ExternFunction.
ExternFunctionCtor(expr, method, originalMethodType, actualMethodType, incomplete) ==
    ExternCallCtor("ExternFunction", expr, NullDecl, method, originalMethodType,
                   actualMethodType, incomplete)

\* ActionCall::ActionCall passing a second type object as the actual type, as
\* the constructors of the generic variants are given.
ActionCallTwoTypes(expr, action, actionType) ==
    LET base == MethodInstanceCtor(expr, NullDecl, actionType,
                                   [actionType EXCEPT !.id = "instantiated"])
    IN IF base.err # "" THEN base
       ELSE IF action.id = Null THEN Fail("CHECK_NULL")
       ELSE bindParameters([base.inst EXCEPT !.variant = "ActionCall",
                                             !.action = action])

\* ActionCall::ActionCall.
ActionCallCtor(expr, action, actionType) ==
    LET base == MethodInstanceCtor(expr, NullDecl, actionType, actionType)
    IN IF base.err # "" THEN base
       ELSE IF action.id = Null THEN Fail("CHECK_NULL")
       ELSE bindParameters([base.inst EXCEPT !.variant = "ActionCall",
                                             !.action = action])

\* FunctionCall::FunctionCall.
FunctionCallCtor(expr, function, originalMethodType, actualMethodType, incomplete) ==
    LET base == MethodInstanceCtor(expr, NullDecl, originalMethodType, actualMethodType)
    IN IF base.err # "" THEN base
       ELSE IF function.id = Null THEN Fail("CHECK_NULL")
       ELSE LET b == bindParameters([base.inst EXCEPT !.variant = "FunctionCall",
                                                      !.function = function.id])
            IN IF b.err # "" \/ incomplete THEN b
               ELSE Ok([b.inst EXCEPT !.typeSubstitution =
                            setBindings(@, function.type.typeParameters,
                                        expr.typeArguments)])

\* BuiltInMethod::BuiltInMethod.
BuiltInMethodCtor(expr, name, appliedTo, methodType) ==
    LET base == MethodInstanceCtor(expr, NullDecl, methodType, methodType)
    IN IF base.err # "" THEN base
       ELSE IF appliedTo = Null THEN Fail("CHECK_NULL")
       ELSE bindParameters([base.inst EXCEPT !.variant = "BuiltInMethod",
                                             !.name = name,
                                             !.appliedTo = appliedTo])

\* ------------------------------------------------------ constructor calls

\* An extern type (IR::Type_Extern): its type parameters and its declared
\* constructors, each a Callable whose type holds the parameter list.
CtorIds == <<"ctor1", "ctor2", "ctor3">>
ExternType(tps, ctorParams) ==
    [id |-> "E", typeParameters |-> tps,
     constructors |-> [i \in 1..Len(ctorParams) |->
                          Callable(CtorIds[i], MethodType(CtorIds[i], <<>>, ctorParams[i]))]]

\* A container (IR::IContainer): a package, a parser or a control.
Container(k, tps, ps) == [id |-> k, typeParameters |-> tps, constructorParameters |-> ps]

\* IContainer::getConstructorParameters().
getConstructorParameters(cont) == cont.constructorParameters

\* Type_Extern::lookupConstructor(arguments): the first declared constructor
\* whose parameter list is compatible with the arguments, null for none.
lookupConstructor(type, arguments) ==
    LET fits == {i \in 1..Len(type.constructors) :
                    Reconcilable(type.constructors[i].type.parameters, arguments)}
    IN IF fits = {} THEN NullCallable
       ELSE type.constructors[CHOOSE i \in fits : \A j \in fits : i <= j]

\* ConstructorCall::ConstructorCall.
ConstructorCallCtor(cce) ==
    IF cce.id = Null THEN Fail("CHECK_NULL") ELSE Ok([Blank EXCEPT !.cce = cce])

\* ExternConstructorCall::ExternConstructorCall.
ExternConstructorCallCtor(cce, type, constructor) ==
    LET base == ConstructorCallCtor(cce)
    IN IF base.err # "" THEN base
       ELSE IF type.id = Null THEN Fail("CHECK_NULL")
       ELSE IF constructor.id = Null THEN Fail("CHECK_NULL")
       ELSE Ok([base.inst EXCEPT !.variant = "ExternConstructorCall",
                                 !.type = type.id,
                                 !.constructor = constructor.id])

\* ContainerConstructorCall::ContainerConstructorCall.
ContainerConstructorCallCtor(cce, cont) ==
    LET base == ConstructorCallCtor(cce)
    IN IF base.err # "" THEN base
       ELSE IF cont.id = Null THEN Fail("CHECK_NULL")
       ELSE Ok([base.inst EXCEPT !.variant = "ContainerConstructorCall",
                                 !.container = cont.id])

\* --------------------------------------------------------- instantiations

\* Instantiation::Instantiation.
InstantiationCtor(instance, typeArguments) ==
    IF instance.id = Null THEN Fail("CHECK_NULL")
    ELSE Ok([Blank EXCEPT !.instance = instance,
                          !.typeArguments = PtrTo(typeArguments),
                          !.constructorArguments = PtrTo(instance.arguments)])

\* ExternInstantiation::ExternInstantiation with the check of the constructor
\* left out.
ExternInstantiationUnchecked(obj, type) ==
    LET constructor == lookupConstructor(type, obj.constructorArguments[1])
    IN Ok([obj EXCEPT !.variant = "ExternInstantiation",
                      !.type = type.id,
                      !.constructor = constructor.id,
                      !.constructorParameters = PtrTo(constructor.type.parameters),
                      !.typeParameters = PtrTo(type.typeParameters)])

\* ExternInstantiation::ExternInstantiation up to its call of substitute().
ExternInstantiationCtor(obj, type) ==
    LET constructor == lookupConstructor(type, obj.constructorArguments[1])
    IN IF constructor.id = Null THEN Fail("NoMatchingConstructor")
       ELSE Ok([obj EXCEPT !.variant = "ExternInstantiation",
                           !.type = type.id,
                           !.constructor = constructor.id,
                           !.constructorParameters = PtrTo(constructor.type.parameters),
                           !.typeParameters = PtrTo(type.typeParameters)])

\* PackageInstantiation::PackageInstantiation up to its call of substitute().
PackageInstantiationCtor(obj, package) ==
    Ok([obj EXCEPT !.variant = "PackageInstantiation",
                   !.container = package.id,
                   !.constructorParameters = PtrTo(getConstructorParameters(package)),
                   !.typeParameters = PtrTo(package.typeParameters)])

\* ParserInstantiation::ParserInstantiation up to its call of substitute().
ParserInstantiationCtor(obj, parser) ==
    Ok([obj EXCEPT !.variant = "ParserInstantiation",
                   !.container = parser.id,
                   !.typeParameters = PtrTo(parser.typeParameters),
                   !.constructorParameters = PtrTo(getConstructorParameters(parser))])

\* ControlInstantiation::ControlInstantiation up to its call of substitute().
ControlInstantiationCtor(obj, control) ==
    Ok([obj EXCEPT !.variant = "ControlInstantiation",
                   !.container = control.id,
                   !.typeParameters = PtrTo(control.typeParameters),
                   !.constructorParameters = PtrTo(getConstructorParameters(control))])

\* Instantiation::substitute, its first statement.  A null parameter list is
\* dereferenced by populate.
substitutePopulate(obj) ==
    IF obj.constructorParameters = NullList \/ obj.constructorArguments = NullList
    THEN Fail("null dereference")
    ELSE LET r == populate(obj.constructorParameters[1], obj.constructorArguments[1])
         IN IF r.ok THEN Ok([obj EXCEPT !.substitution = r.sub])
            ELSE Fail("ArityMismatch")

\* Instantiation::substitute, its second statement.
substituteSetBindings(obj) ==
    IF obj.typeParameters = NullList \/ obj.typeArguments = NullList
    THEN Fail("null dereference")
    ELSE Ok([obj EXCEPT !.typeSubstitution =
                 setBindings(@, obj.typeParameters[1], obj.typeArguments[1])])

\* ------------------------------------------------------------ classifiers

\* The five built-in operations.
BuiltInNames == {"setValid", "setInvalid", "isValid", "push_front", "pop_front"}

\* The statements of an action's body, as the names they mention.
ActionBody == <<"a", "x", "b", "a", "c", "d">>

\* The type t with the type arguments tas substituted for the type
\* parameters tps.
SubstType(t, tps, tas) ==
    LET hits == {i \in 1..Len(tps) : tps[i] = t}
    IN IF hits = {} THEN t ELSE tas[CHOOSE i \in hits : TRUE]

\* The actual method type: the declared one when there is nothing to
\* substitute, else a new type with the type arguments substituted in.
Instantiate(mt, tas) ==
    IF mt.id = Null \/ mt.typeParameters = <<>> \/ Len(tas) # Len(mt.typeParameters)
    THEN mt
    ELSE MethodType("instantiated", mt.typeParameters,
                    [i \in 1..Len(mt.parameters) |->
                        Param(mt.parameters[i].name,
                              SubstType(mt.parameters[i].type, mt.typeParameters, tas),
                              mt.parameters[i].opt)])

\* The type of the callee: the type store's (hasTypeMap: a type map was
\* passed), or the call expression's own when useExpressionType is set.
\* typing says which of the two know the type.
CalleeType(in, hasTypeMap, useExpressionType) ==
    LET declared == MethodType("declared", in.typeParameters, in.params)
    IN IF useExpressionType
       THEN IF in.typing \in {"both", "exprOnly"} THEN declared ELSE NullType
       ELSE IF hasTypeMap /\ in.typing \in {"both", "mapOnly"} THEN declared ELSE NullType

\* The declaration the declaration-resolution service returns for the callee
\* (of a path callee) or for its receiver (of a member callee).
getDeclaration(in) ==
    IF in.declNode = Null THEN NullDecl ELSE Decl("decl", in.declNode)

\* The rule (1..6, in the priority order of the classifier) the callee
\* matches first; 0 when it matches none.
ApplyRule(in) == in.recv \in {"table", "control", "parser"}
BuiltInRule(in) == in.member \in BuiltInNames /\ in.recv \in {"header", "union", "stack"}
ExternMethodRule(in) == in.recv = "extern"
ExternFunctionRule(in) == in.recv = "none" /\ in.declNode = "Method"
ActionRule(in) == in.recv = "none" /\ in.declNode = "P4Action"
\* The function rule never matching: a call of a user function is left
\* unclassified.
FunctionRuleMissing(in) == FALSE
FunctionRule(in) == in.recv = "none" /\ in.declNode = "Function"

\* MethodInstance::resolve(mce, refMap, typeMap, useExpressionType, ctxt, incomplete).
resolve(in, hasTypeMap, useExpressionType, incomplete, ub) ==
    LET mce == CallExpr(in.args, in.typeArgs)
        mt == CalleeType(in, hasTypeMap, useExpressionType)
        actual == Instantiate(mt, in.typeArgs)
        decl == getDeclaration(in)
    IN IF ApplyRule(in)
       THEN IF decl.id = Null THEN Fail("UnresolvedDeclaration")
            ELSE ApplyMethodCtor(mce, decl, ApplyObject(in.recv, in.params, in.freshApplyType), ub,
                                 in.lastArgumentFirst)
       ELSE IF BuiltInRule(in)
       THEN BuiltInMethodCtor(mce, in.member, "receiver", mt)
       ELSE IF ExternMethodRule(in)
       THEN IF decl.id = Null THEN Fail("UnresolvedDeclaration")
            ELSE ExternMethodCtor(mce, decl, Callable(in.member, mt), "E", mt,
                                  "E", actual, incomplete)
       ELSE IF ExternFunctionRule(in)
       THEN ExternFunctionCtor(mce, Callable("method", mt), mt, actual, incomplete)
       ELSE IF ActionRule(in)
       THEN ActionCallCtor(mce, Action("action", in.params, ActionBody), mt)
       ELSE IF FunctionRule(in)
       THEN FunctionCallCtor(mce, Callable("function", mt), mt, actual, incomplete)
       ELSE Fail("UnresolvableCall")

\* The target of a constructor call or of an instantiation, from the type
\* store: an extern type or a container.
TargetExtern(in) == ExternType(in.typeParameters, in.ctors)
TargetContainer(in) == Container(in.target, in.typeParameters, in.params)

\* ConstructorCall::resolve(cce, refMap, typeMap).  The overload search
\* finding no constructor is the error NoMatchingConstructor, raised before
\* the instance is constructed.
ConstructorCall_resolve(in) ==
    LET cce == Site("cce", in.args)
        c == IF in.target = "extern"
             THEN IF lookupConstructor(TargetExtern(in), in.args) = NullCallable
                  THEN Fail("NoMatchingConstructor")
                  ELSE ExternConstructorCallCtor(cce, TargetExtern(in),
                                                 lookupConstructor(TargetExtern(in), in.args))
             ELSE IF in.target \in {"package", "parser", "control"}
             THEN ContainerConstructorCallCtor(cce, TargetContainer(in))
             ELSE Fail("UnresolvableConstructor")
        ps == IF in.target = "extern"
              THEN lookupConstructor(TargetExtern(in), in.args).type.parameters
              ELSE getConstructorParameters(TargetContainer(in))
        r == populate(ps, in.args)
    IN IF c.err # "" THEN c
       ELSE IF ~r.ok THEN Fail("ArityMismatch")
       ELSE Ok([c.inst EXCEPT !.typeArguments = PtrTo(in.typeArgs),
                              !.constructorParameters = PtrTo(ps),
                              !.substitution = r.sub])

\* Instantiation::resolve(instance, refMap, typeMap): the class to construct.
Instantiation_resolve(in) ==
    IF in.target = "extern" THEN "ExternInstantiation"
    ELSE IF in.target = "package" THEN "PackageInstantiation"
    ELSE IF in.target = "parser" THEN "ParserInstantiation"
    ELSE IF in.target = "control" THEN "ControlInstantiation"
    ELSE "none"

\* specialize keeping the action's parameter list.
specializeKeepsParameters(inst) ==
    LET sigma(tok) ==
            LET bs == {b \in inst.substitution.map : b.param.name = tok}
            IN IF bs = {} THEN tok ELSE (CHOOSE b \in bs : TRUE).arg.expr
    IN Action(inst.action.id, inst.action.parameters,
              [i \in 1..Len(inst.action.body) |-> sigma(inst.action.body[i])])

\* ActionCall::specialize(refMap): the action with every formal parameter of
\* its body replaced by the argument the substitution binds to it, and with
\* no parameters left.
specialize(inst) ==
    LET sigma(tok) ==
            LET bs == {b \in inst.substitution.map : b.param.name = tok}
            IN IF bs = {} THEN tok ELSE (CHOOSE b \in bs : TRUE).arg.expr
    IN Action(inst.action.id, <<>>,
              [i \in 1..Len(inst.action.body) |-> sigma(inst.action.body[i])])

\* ---------------------------------------------------------------- inputs

\* The parameter lists of up to MaxParams parameters; the first parameter's
\* type is drawn from firstTypes, the others are bit-typed.
ParamLists(firstTypes) ==
    UNION {{[i \in 1..n |-> Param(ParamNames[i], IF i = 1 THEN ft ELSE "bit", os[i])] :
               ft \in firstTypes, os \in [1..n -> BOOLEAN]} : n \in 0..MaxParams}

\* The parameter lists in which only the last parameter may be optional.
TrailingOptional(firstTypes) ==
    {ps \in ParamLists(firstTypes) : \A i \in 1..Len(ps) : ps[i].opt => i = Len(ps)}

\* The types a parameter of a callee with type parameters tps is declared with.
DeclTypes(tps) == {"bit"} \cup (IF tps = <<>> THEN {} ELSE {tps[1]})

\* The argument lists: all positional, or all named (each name once), or
\* naming a parameter nothing declares.
ArgLists ==
    {[i \in 1..n |-> Arg("", ArgExprs[i])] : n \in 0..MaxParams}
    \cup UNION {{[i \in 1..n |-> Arg(ParamNames[f[i]], ArgExprs[i])] :
                    f \in {g \in [1..n -> 1..MaxParams] :
                              \A i, j \in 1..n : i # j => g[i] # g[j]}} :
                  n \in 1..MaxParams}
    \cup {<<Arg("z", ArgExprs[1])>>}

TypeParamLists == {[i \in 1..n |-> TypeVarNames[i]] : n \in 0..MaxTypeParams}
TypeArgLists == {[i \in 1..n |-> ConcreteTypes[i]] : n \in 0..MaxTypeParams}

\* The parameter lists of a constructor: only the last parameter may be
\* optional.
CtorParamLists == TrailingOptional({"bit"})

\* The constructor lists of an extern type: none, one or two constructors.
CtorLists ==
    {<<>>} \cup {<<p>> : p \in CtorParamLists}
    \cup {<<p, q>> : p \in CtorParamLists, q \in CtorParamLists}

Recvs == {"table", "control", "parser", "header", "union", "stack", "extern", "struct"}
Members == BuiltInNames \cup {"apply", "foo"}
Typings == {"both", "mapOnly", "exprOnly"}

\* What is resolved: a call expression, a constructor-call expression or an
\* instance declaration, with what the declaration service and the type
\* store say about it.
Input(op, recv, member, declNode, typing, tps, ps, as, tas, target, ctors) ==
    [op |-> op, recv |-> recv, member |-> member, declNode |-> declNode,
     typing |-> typing, typeParameters |-> tps, params |-> ps, args |-> as,
     typeArgs |-> tas, target |-> target, ctors |-> ctors, freshApplyType |-> FALSE,
     lastArgumentFirst |-> FALSE]

\* Whether the receiver's getApplyMethodType() makes a new type object at
\* each call: either, for a receiver with an apply method.
FreshApplyTypes(recv) ==
    IF recv \in {"table", "control", "parser"} THEN BOOLEAN ELSE {FALSE}

\* The order in which the build evaluates the two arguments of the base
\* constructor call in ApplyMethod::ApplyMethod: either, where it can be told.
ArgumentOrders(fresh) == IF fresh THEN BOOLEAN ELSE {FALSE}

\* The declaration of a receiver of kind recv.
ReceiverNode(recv) == IF recv = "table" THEN "P4Table" ELSE "Declaration_Instance"

\* Calls of every callee shape, with an empty signature.
ShapeInput(in) ==
    \/ \E r \in Recvs, m \in Members, t \in Typings :
          \E d \in {Null, ReceiverNode(r)}, fr \in FreshApplyTypes(r) :
             \E lf \in ArgumentOrders(fr) :
                in = [Input("call", r, m, d, t, <<>>, <<>>, <<>>, <<>>, "none", <<>>)
                         EXCEPT !.freshApplyType = fr, !.lastArgumentFirst = lf]
    \/ \E d \in {Null, "Method", "P4Action", "Function", "Declaration_Variable"},
          t \in Typings :
             in = Input("call", "none", "none", d, t, <<>>, <<>>, <<>>, <<>>, "none", <<>>)

\* Calls of the callees that are never generic, with every signature.
PlainCallInput(in) ==
    \E c \in {<<"table", "apply", "P4Table">>,
              <<"control", "apply", "Declaration_Instance">>,
              <<"header", "isValid", Null>>, <<"stack", "push_front", Null>>,
              <<"none", "none", "P4Action">>},
       ps \in ParamLists({"bit"}), as \in ArgLists :
          \E fr \in FreshApplyTypes(c[1]) :
             \E lf \in ArgumentOrders(fr) :
                in = [Input("call", c[1], c[2], c[3], "both", <<>>, ps, as, <<>>, "none", <<>>)
                         EXCEPT !.freshApplyType = fr, !.lastArgumentFirst = lf]

\* Calls of the callees that may be generic, with the signatures whose last
\* parameter alone may be optional.
GenericCallInput(in) ==
    \E c \in {<<"extern", "foo", "Declaration_Instance">>,
              <<"none", "none", "Method">>, <<"none", "none", "Function">>},
       tps \in TypeParamLists, as \in ArgLists, tas \in TypeArgLists :
          \E ps \in TrailingOptional(DeclTypes(tps)) :
             in = Input("call", c[1], c[2], c[3], "both", tps, ps, as, tas, "none", <<>>)

\* Constructor calls and instantiations of containers, of extern types and of
\* a type that is neither.
TargetInput(in) ==
    \E op \in {"ctor", "inst"} :
       \/ \E k \in {"package", "parser", "control"},
             tps \in TypeParamLists, as \in ArgLists, tas \in TypeArgLists :
             \E ps \in TrailingOptional(DeclTypes(tps)) :
                in = Input(op, "none", "none", Null, "both", tps, ps, as, tas, k, <<>>)
       \/ \E tps \in TypeParamLists, as \in ArgLists, tas \in TypeArgLists,
             cs \in CtorLists :
             in = Input(op, "none", "none", Null, "both", tps, <<>>, as, tas, "extern", cs)
       \/ in = Input(op, "none", "none", Null, "both", <<>>, <<>>, <<>>, <<>>, "other", <<>>)

\* ----------------------------------------------------------------- state

VARIABLES
    input,      \* what is resolved, the declaration service, the type store, the build
    pc,         \* idle, base, selected, populated (an instantiation's steps), done
    run,        \* 1: the first invocation on input, 2: a later one
    flags,      \* the invocation's typeMap, useExpressionType and incomplete
    obj,        \* the instantiation under construction
    calls,      \* the binder calls the instantiation's constructor has made
    result,     \* what the invocation returned
    prev,       \* the flags and result of the invocation before this one
    derived     \* what specialize and isTableApply returned on result

vars == <<input, pc, run, flags, obj, calls, result, prev, derived>>

NoFlags == [hasTypeMap |-> FALSE, useExpressionType |-> FALSE, incomplete |-> FALSE]
Flags(tm, uet, inc) == [hasTypeMap |-> tm, useExpressionType |-> uet, incomplete |-> inc]
NoResult == Fail("pending")
NoDerived == [specialized |-> NullAction, isTableApply |-> "none"]

Init ==
    /\ \/ ShapeInput(input)
       \/ PlainCallInput(input)
       \/ GenericCallInput(input)
       \/ TargetInput(input)
    /\ pc = "idle"
    /\ run = 1
    /\ flags = NoFlags
    /\ obj = Blank
    /\ calls = <<>>
    /\ result = NoResult
    /\ prev = [flags |-> NoFlags, result |-> NoResult]
    /\ derived = NoDerived

\* A call returns what resolve returns.
Return(tm, uet, inc) ==
    /\ pc = "idle"
    /\ input.op = "call"
    /\ flags' = Flags(tm, uet, inc)
    /\ result' \in {resolve(input, tm, uet, inc, ub) : ub \in UndefinedOutcomes}
    /\ pc' = "done"
    /\ UNCHANGED <<input, run, obj, calls, prev, derived>>

\* resolve(mce, refMap, typeMap, useExpressionType, ctxt, incomplete).
Resolve ==
    \E tm, uet, inc \in BOOLEAN : Return(tm, uet, inc)

\* resolve(mce, refMap, typeMap, ctxt, incomplete).
ResolveCtxt ==
    \E tm, inc \in BOOLEAN : Return(tm, FALSE, inc)

\* resolve(mcs, refMap, typeMap, ctxt).
ResolveStatement ==
    \E tm \in BOOLEAN : Return(tm, FALSE, FALSE)

\* resolve(mce, refMap, ctxt).
ResolveNoTypeMap ==
    Return(FALSE, TRUE, FALSE)

\* resolve(mcs, refMap, ctxt).
ResolveStatementNoTypeMap ==
    Return(FALSE, TRUE, FALSE)

\* ConstructorCall::resolve.
ResolveConstructorCall ==
    /\ pc = "idle"
    /\ input.op = "ctor"
    /\ result' = ConstructorCall_resolve(input)
    /\ pc' = "done"
    /\ UNCHANGED <<input, run, flags, obj, calls, prev, derived>>

\* Instantiation::resolve up to the body of the constructor it chooses: the
\* base class is constructed.
ResolveInstantiation ==
    /\ pc = "idle"
    /\ input.op = "inst"
    /\ LET r == InstantiationCtor(Site("instance", input.args), input.typeArgs)
       IN IF Instantiation_resolve(input) = "none"
          THEN /\ result' = Fail("UnresolvableInstantiation")
               /\ pc' = "done"
               /\ obj' = Blank
          ELSE IF r.err # ""
          THEN /\ result' = r
               /\ pc' = "done"
               /\ obj' = Blank
          ELSE /\ obj' = r.inst
               /\ pc' = "base"
               /\ result' = NoResult
    /\ calls' = <<>>
    /\ UNCHANGED <<input, run, flags, prev, derived>>

\* The constructor body's assignments, up to substitute(): c is the outcome.
Select(class, c) ==
    /\ pc = "base"
    /\ Instantiation_resolve(input) = class
    /\ IF c.err # ""
       THEN /\ result' = c
            /\ pc' = "done"
            /\ obj' = Blank
       ELSE /\ obj' = c.inst
            /\ pc' = "selected"
            /\ result' = NoResult
    /\ UNCHANGED <<input, run, flags, calls, prev, derived>>

ExternInstantiation ==
    Select("ExternInstantiation", ExternInstantiationCtor(obj, TargetExtern(input)))

PackageInstantiation ==
    Select("PackageInstantiation", PackageInstantiationCtor(obj, TargetContainer(input)))

ParserInstantiation ==
    Select("ParserInstantiation", ParserInstantiationCtor(obj, TargetContainer(input)))

ControlInstantiation ==
    Select("ControlInstantiation", ControlInstantiationCtor(obj, TargetContainer(input)))

\* substitute(): substitution.populate(constructorParameters, constructorArguments).
SubstitutePopulate ==
    /\ pc = "selected"
    /\ LET r == substitutePopulate(obj)
       IN IF r.err # ""
          THEN /\ result' = r
               /\ pc' = "done"
               /\ obj' = Blank
          ELSE /\ obj' = r.inst
               /\ pc' = "populated"
               /\ result' = NoResult
    /\ calls' = Append(calls, "populate")
    /\ UNCHANGED <<input, run, flags, prev, derived>>

\* substitute(): typeSubstitution.setBindings(instance, typeParameters,
\* typeArguments); the constructor returns.
SubstituteSetBindings ==
    /\ pc = "populated"
    /\ result' = substituteSetBindings(obj)
    /\ pc' = "done"
    /\ obj' = Blank
    /\ calls' = Append(calls, "setBindings")
    /\ UNCHANGED <<input, run, flags, prev, derived>>

\* ActionCall::specialize on a resolved action call.
Specialize ==
    /\ pc = "done"
    /\ result.err = ""
    /\ result.inst.variant = "ActionCall"
    /\ derived.specialized = NullAction
    /\ derived' = [derived EXCEPT !.specialized = specialize(result.inst)]
    /\ UNCHANGED <<input, pc, run, flags, obj, calls, result, prev>>

\* ApplyMethod::isTableApply on a resolved apply call.
IsTableApply ==
    /\ pc = "done"
    /\ result.err = ""
    /\ result.inst.variant = "ApplyMethod"
    /\ derived.isTableApply = "none"
    /\ derived' = [derived EXCEPT !.isTableApply = isTableApply(result.inst)]
    /\ UNCHANGED <<input, pc, run, flags, obj, calls, result, prev>>

\* The caller invokes resolve once more on the same input, any number of
\* times.
Again ==
    /\ pc = "done"
    /\ prev' = [flags |-> flags, result |-> result]
    /\ run' = 2
    /\ pc' = "idle"
    /\ flags' = NoFlags
    /\ result' = NoResult
    /\ calls' = <<>>
    /\ derived' = NoDerived
    /\ UNCHANGED <<input, obj>>

Next ==
    \/ Resolve
    \/ ResolveCtxt
    \/ ResolveStatement
    \/ ResolveNoTypeMap
    \/ ResolveStatementNoTypeMap
    \/ ResolveConstructorCall
    \/ ResolveInstantiation
    \/ ExternInstantiation
    \/ PackageInstantiation
    \/ ParserInstantiation
    \/ ControlInstantiation
    \/ SubstitutePopulate
    \/ SubstituteSetBindings
    \/ Specialize
    \/ IsTableApply
    \/ Again

Spec == Init /\ [][Next]_vars

\* ---------------------------------------------------------------- claims

Done == pc = "done"
\* The invocation has returned an instance.
Resolved == Done /\ result.err = ""

CallVariants ==
    {"ApplyMethod", "BuiltInMethod", "ExternMethod", "ExternFunction", "ActionCall",
     "FunctionCall"}
ConstructorVariants == {"ExternConstructorCall", "ContainerConstructorCall"}
InstantiationVariants ==
    {"ExternInstantiation", "PackageInstantiation", "ParserInstantiation",
     "ControlInstantiation"}

\* The actual parameter list and the argument list of a resolved instance.
ActualParametersOf(inst) ==
    IF inst.variant \in CallVariants THEN inst.actualMethodType.parameters
    ELSE inst.constructorParameters[1]
ArgumentsOf(inst) ==
    IF inst.variant \in CallVariants THEN inst.expr.arguments
    ELSE IF inst.variant \in ConstructorVariants THEN inst.cce.arguments
    ELSE inst.constructorArguments[1]

\* C1 (arity law): the parameter binding of every resolved call, constructor
\* call and instantiation has exactly one entry per parameter of the actual
\* (substituted) parameter list; each entry binds an argument of the call or
\* declaration, or the default of an optional parameter; every argument is
\* bound to one parameter.  When arity cannot be reconciled (more arguments
\* than parameters, a required parameter left without an argument), no
\* instance is produced.
C1_ArityLaw ==
    Resolved =>
        LET inst == result.inst
            ps == ActualParametersOf(inst)
            as == ArgumentsOf(inst)
            m == inst.substitution.map
        IN /\ inst.variant \in CallVariants \cup ConstructorVariants \cup InstantiationVariants
           /\ Cardinality(m) = Len(ps)
           /\ {b.param : b \in m} = Range(ps)
           /\ \A b \in m : \/ b.arg \in Range(as)
                           \/ b.param.opt /\ b.arg = DefaultArg(b.param)
           /\ \A i \in 1..Len(as) : Cardinality({b \in m : b.arg = as[i]}) = 1
           /\ Len(as) <= Len(ps)
           /\ \A j \in 1..Len(ps) :
                  ps[j].opt \/ \E b \in m : b.param = ps[j] /\ b.arg \in Range(as)

\* A generic extern method is resolved with its type argument substituted,
\* one parameter bound to an argument and one to its default.
C1_Witness ==
    /\ Resolved
    /\ result.inst.variant = "ExternMethod"
    /\ result.inst.actualMethodType.id = "instantiated"
    /\ Cardinality(result.inst.substitution.map) = 2
    /\ Len(result.inst.expr.arguments) = 1
    /\ \E b \in result.inst.substitution.map : b.param.type = ConcreteTypes[1]

\* The type parameters the callee of a resolved call declares.
CalleeTypeParameters(inst) == inst.originalMethodType.typeParameters

\* C2 (substitution totality): every call resolved with incomplete = false
\* has every type parameter of the callee as a key of its type-variable
\* binding, also when the call's type-argument list is empty.  The
\* constructors hand setBindings the call's own type-argument list and go on
\* whatever it makes of it, so a generic callee called without type arguments
\* is returned with an empty binding.
C2_TotalAlways ==
    (Resolved /\ input.op = "call" /\ ~flags.incomplete) =>
        Range(CalleeTypeParameters(result.inst)) \subseteq
            TypeVarsOf(result.inst.typeSubstitution)

\* An invocation has returned that was given the flags of the one before it
\* but for incomplete, and both returned an instance.
BothModes ==
    /\ Resolved
    /\ run = 2
    /\ input.op = "call"
    /\ prev.result.err = ""
    /\ prev.flags = [flags EXCEPT !.incomplete = ~flags.incomplete]

\* The instance with its type-variable binding left out.
WithoutTypeSubstitution(inst) == [inst EXCEPT !.typeSubstitution = {}]

\* C3 as claimed: the instance resolve returns in incomplete mode differs
\* from the one it returns in complete mode for the same call and environment.
C3_ModesDiffer ==
    BothModes => result.inst # prev.result.inst

\* C3 as amended: the two modes return instances of one shape: the same
\* variant and the same fields but for the type-variable binding, which is
\* empty in incomplete mode; nothing in the instance records the mode, and
\* the two instances are equal when the complete one binds no type variable.
C3_ModesShareShape ==
    /\ (Done /\ run = 2 /\ input.op = "call"
          /\ prev.flags = [flags EXCEPT !.incomplete = ~flags.incomplete])
         => (result.err = prev.result.err)
    /\ BothModes =>
        LET inc == IF flags.incomplete THEN result.inst ELSE prev.result.inst
            com == IF flags.incomplete THEN prev.result.inst ELSE result.inst
        IN /\ DOMAIN inc = DOMAIN com
           /\ WithoutTypeSubstitution(inc) = WithoutTypeSubstitution(com)
           /\ inc.typeSubstitution = {}
           /\ (com.typeSubstitution = {}) => inc = com

\* A generic extern function is resolved in complete mode, binding its type
\* parameter, after it was resolved in incomplete mode.
C3_Witness ==
    /\ BothModes
    /\ ~flags.incomplete
    /\ result.inst.variant = "ExternFunction"
    /\ result.inst.typeSubstitution # {}
    /\ result.inst.substitution.map # {}

\* The variant of the first rule the callee matches, in the priority order
\* apply, built-in, extern method, extern function, action, function; "none"
\* when it matches no rule.
ExpectedVariant(in) ==
    IF in.recv \in {"table", "control", "parser"} THEN "ApplyMethod"
    ELSE IF in.member \in {"setValid", "setInvalid", "isValid", "push_front", "pop_front"}
            /\ in.recv \in {"header", "union", "stack"} THEN "BuiltInMethod"
    ELSE IF in.recv = "extern" THEN "ExternMethod"
    ELSE IF in.recv = "none" /\ in.declNode = "Method" THEN "ExternFunction"
    ELSE IF in.recv = "none" /\ in.declNode = "P4Action" THEN "ActionCall"
    ELSE IF in.recv = "none" /\ in.declNode = "Function" THEN "FunctionCall"
    ELSE "none"

\* The call is one of a well-formed program, resolved with the flags f: the
\* receiver of an apply or of an extern method is declared, the callee's type
\* is known where resolve is told to look for it, and the arguments fit the
\* callee's parameters.
WellFormedCall(in, f) ==
    /\ ExpectedVariant(in) \in {"ApplyMethod", "ExternMethod"} => in.declNode # Null
    /\ ExpectedVariant(in) # "ApplyMethod" =>
           IF f.useExpressionType THEN in.typing \in {"both", "exprOnly"}
           ELSE f.hasTypeMap /\ in.typing \in {"both", "mapOnly"}
    /\ Reconcilable(IF in.recv = "table" THEN <<>> ELSE in.params, in.args)

\* C4 (exhaustiveness): a call that resolve returns an instance for is of
\* exactly one of the six variants, the one of the first rule its callee
\* matches; every call of a well-formed program whose callee matches a rule
\* is resolved; a callee that matches no rule yields the internal error
\* UnresolvableCall and no instance.
C4_Exhaustive ==
    (Done /\ input.op = "call") =>
        /\ result.err = "" =>
              /\ result.inst.variant \in CallVariants
              /\ result.inst.variant = ExpectedVariant(input)
        /\ (WellFormedCall(input, flags) /\ ExpectedVariant(input) # "none") =>
              result.err = ""
        /\ ExpectedVariant(input) = "none" =>
              /\ result.err = "UnresolvableCall"
              /\ result.inst = Blank

\* A call of a user function of a well-formed program has been resolved.
C4_Witness ==
    /\ Resolved
    /\ input.op = "call"
    /\ WellFormedCall(input, flags)
    /\ result.inst.variant = "FunctionCall"
    /\ input.args # <<>>

\* C6 (constructor overload resolution): a constructor call or instantiation
\* of an extern type that is resolved selects a declared constructor whose
\* parameter list is compatible with the arguments, the first declared such,
\* and takes its parameter list; with a zero-argument and a one-argument
\* constructor, one argument selects the one-argument constructor and no
\* argument the zero-argument one; when no declared constructor is
\* compatible, resolution fails with NoMatchingConstructor and returns no
\* instance.
C6_ConstructorOverload ==
    (Done /\ input.op \in {"ctor", "inst"} /\ input.target = "extern") =>
        LET cs == input.ctors
            fits == {i \in 1..Len(cs) : Reconcilable(cs[i], input.args)}
        IN /\ result.err = "" =>
                 \E i \in fits :
                     /\ \A j \in fits : i <= j
                     /\ result.inst.constructor = CtorIds[i]
                     /\ result.inst.constructorParameters = PtrTo(cs[i])
                     /\ result.inst.substitution.paramList = cs[i]
           /\ fits = {} =>
                 /\ result.err = "NoMatchingConstructor"
                 /\ result.inst = Blank
                 /\ ~result.inst.substitution.populated
           /\ (Len(cs) = 2 /\ cs[1] = <<>> /\ Len(cs[2]) = 1 /\ ~cs[2][1].opt
                 /\ \A i \in 1..Len(input.args) : input.args[i].name = "") =>
                 /\ Len(input.args) = 0 =>
                        result.err = "" /\ result.inst.constructor = CtorIds[1]
                 /\ Len(input.args) = 1 =>
                        result.err = "" /\ result.inst.constructor = CtorIds[2]
                 /\ Len(input.args) >= 2 => result.err = "NoMatchingConstructor"

\* An extern type with a zero-argument and a one-argument constructor is
\* instantiated with one argument.
C6_Witness ==
    /\ Resolved
    /\ input.op = "inst"
    /\ input.target = "extern"
    /\ Len(input.ctors) = 2 /\ input.ctors[1] = <<>> /\ Len(input.ctors[2]) = 1
    /\ ~input.ctors[2][1].opt
    /\ Len(input.args) = 1
    /\ result.inst.constructor = CtorIds[2]
    /\ Cardinality(result.inst.substitution.map) = 1

\* C7 (specialization law): the action specialize returns for a resolved
\* action call takes no parameters, and its body is the action's body with
\* every mention of a formal parameter replaced by the argument the
\* parameter binding binds to that parameter (for a positional call, the
\* k-th parameter by the k-th argument) and everything else left as it is.
C7_Specialization ==
    (Resolved /\ derived.specialized # NullAction) =>
        LET inst == result.inst
            act == inst.action
            sp == derived.specialized
            as == inst.expr.arguments
            formals == {act.parameters[k].name : k \in 1..Len(act.parameters)}
        IN /\ inst.variant = "ActionCall"
           /\ sp.id = act.id
           /\ sp.parameters = <<>>
           /\ Len(sp.body) = Len(act.body)
           /\ \A i \in 1..Len(act.body) :
                  IF act.body[i] \in formals
                  THEN /\ \E b \in inst.substitution.map :
                              b.param.name = act.body[i] /\ sp.body[i] = b.arg.expr
                       /\ sp.body[i] \notin formals
                  ELSE sp.body[i] = act.body[i]
           /\ \A i \in 1..Len(act.body), k \in 1..Len(as) :
                  (as[k].name = "" /\ k <= Len(act.parameters)
                     /\ act.body[i] = act.parameters[k].name) => sp.body[i] = as[k].expr

\* An action with two parameters, called with one positional argument and
\* one default, has been specialized.
C7_Witness ==
    /\ Resolved
    /\ derived.specialized # NullAction
    /\ Len(result.inst.action.parameters) = 2
    /\ Len(result.inst.expr.arguments) = 1
    /\ derived.specialized.body[1] = ArgExprs[1]
    /\ derived.specialized.body[3] = "default"

\* C8 as claimed: a resolved call of a variant that is never generic
\* (ActionCall, ApplyMethod, BuiltInMethod) has one and the same non-null
\* object as its originalMethodType and its actualMethodType, so
\* getOriginalParameters() and getActualParameters() return the same list.
C8_SameMethodType ==
    (Resolved /\ result.inst.variant \in {"ActionCall", "ApplyMethod", "BuiltInMethod"}) =>
        /\ result.inst.originalMethodType.id # Null
        /\ result.inst.actualMethodType.id # Null
        /\ result.inst.originalMethodType.id = result.inst.actualMethodType.id
        /\ result.inst.originalMethodType = result.inst.actualMethodType
        /\ getOriginalParameters(result.inst) = getActualParameters(result.inst)

\* C8 as amended: in a resolved ActionCall or BuiltInMethod the
\* originalMethodType and the actualMethodType are one and the same non-null
\* object; in a resolved ApplyMethod they are the non-null results of two
\* calls of getApplyMethodType() on the apply object, of the same signature,
\* and one object exactly when that method returns a stored object; in all
\* three getOriginalParameters() and getActualParameters() return equal
\* parameter lists.
C8_SameMethodTypeButApply ==
    (Resolved /\ result.inst.variant \in {"ActionCall", "ApplyMethod", "BuiltInMethod"}) =>
        LET o == result.inst.originalMethodType
            a == result.inst.actualMethodType
        IN /\ o.id # Null
           /\ a.id # Null
           /\ result.inst.variant # "ApplyMethod" => o.id = a.id /\ o = a
           /\ result.inst.variant = "ApplyMethod" =>
                  /\ o.typeParameters = a.typeParameters
                  /\ o.parameters = a.parameters
                  /\ (o.id = a.id) <=> ~input.freshApplyType
           /\ getOriginalParameters(result.inst) = getActualParameters(result.inst)

\* An action with two parameters has been called with two arguments.
C8_Witness ==
    /\ Resolved
    /\ result.inst.variant = "ActionCall"
    /\ Len(getActualParameters(result.inst)) = 2
    /\ Cardinality(result.inst.substitution.map) = 2
    /\ Len(result.inst.expr.arguments) = 2

\* C9: the callee declaration (object) of a resolved call is null only in an
\* ExternFunction, a FunctionCall, an ActionCall or a BuiltInMethod; it is
\* non-null in every ApplyMethod and every ExternMethod, and isTableApply()
\* never dereferences a null declaration.
C9_ObjectPresent ==
    /\ (Resolved /\ input.op = "call") =>
          /\ result.inst.variant \in {"ApplyMethod", "ExternMethod"} =>
                 result.inst.object.id # Null
          /\ result.inst.object.id = Null =>
                 result.inst.variant \in
                     {"ExternFunction", "FunctionCall", "ActionCall", "BuiltInMethod"}
    /\ derived.isTableApply # "null dereference"

\* isTableApply() has answered true on the apply call of a table.
C9_Witness ==
    /\ Resolved
    /\ result.inst.variant = "ApplyMethod"
    /\ result.inst.object.node = "P4Table"
    /\ derived.isTableApply = "true"

\* The constructor parameter list and the type-parameter list of the target
\* of the instantiation ps and tps are.
TargetLists(in, ps, tps) ==
    /\ tps = in.typeParameters
    /\ IF in.target = "extern" THEN \E i \in 1..Len(in.ctors) : ps = in.ctors[i]
       ELSE ps = in.params

\* C10: in each of the four instantiation variants the constructor sets
\* constructorParameters and typeParameters to the target's (non-null) lists
\* before any binder is called, then calls populate, then setBindings; an
\* instantiation that is returned has both substitutions populated from
\* these lists, every constructor parameter and every type parameter bound.
\* substitute() goes on whatever setBindings makes of the type arguments, so
\* an instantiation of a generic target without type arguments is returned
\* with no type parameter bound.
C10_NeverPartiallyBound ==
    input.op = "inst" =>
        /\ pc \in {"idle", "base"} => calls = <<>>
        /\ pc = "base" =>
              /\ obj.constructorParameters = NullList
              /\ obj.typeParameters = NullList
        /\ pc \in {"selected", "populated"} =>
              /\ obj.variant \in InstantiationVariants
              /\ obj.constructorParameters # NullList
              /\ obj.typeParameters # NullList
              /\ TargetLists(input, obj.constructorParameters[1], obj.typeParameters[1])
        /\ pc = "selected" =>
              /\ calls = <<>>
              /\ ~obj.substitution.populated
              /\ obj.typeSubstitution = {}
        /\ pc = "populated" =>
              /\ calls = <<"populate">>
              /\ obj.substitution.populated
              /\ obj.substitution.paramList = obj.constructorParameters[1]
              /\ obj.typeSubstitution = {}
        /\ Resolved =>
              /\ calls = <<"populate", "setBindings">>
              /\ result.inst.variant \in InstantiationVariants
              /\ result.inst.constructorParameters # NullList
              /\ result.inst.typeParameters # NullList
              /\ TargetLists(input, result.inst.constructorParameters[1],
                             result.inst.typeParameters[1])
              /\ result.inst.substitution.populated
              /\ result.inst.substitution.paramList = result.inst.constructorParameters[1]
              /\ {b.param : b \in result.inst.substitution.map} =
                     Range(result.inst.constructorParameters[1])
              /\ TypeVarsOf(result.inst.typeSubstitution) =
                     Range(result.inst.typeParameters[1])

====
